---- MODULE Spec2Model ----
(***************************************************************************)
(* Model of scraper.py (MapScraper): the tree scan that classifies every   *)
(* "*map.png" blob of a repository as a base map or a variant, and the     *)
(* fingerprint-based sync that downloads each classified target into       *)
(* Maps/<map name>[/<variant>]/map.png beside a .map_sha record.           *)
(*                                                                         *)
(* Paths are sequences of segments; the empty sequence is Path(".").       *)
(* Texts (fingerprints, record contents) are sequences of characters.      *)
(***************************************************************************)
EXTENDS Integers, Sequences, FiniteSets, TLC

(***************************************************************************)
(* Bounds of the model.                                                    *)
(***************************************************************************)
MaxDepth == 3        \* deepest map directory drawn for the classifier
MaxItems == 3        \* entries of a listing drawn for the classifier
MaxRuns == 2         \* consecutive runs of main() over the same Maps/
MaxEdits == 1        \* edits of Maps/ by the user between the runs

(***************************************************************************)
(* pathlib: the operations of Path the program uses.                       *)
(***************************************************************************)
Segments == {"world", "night"}

\* Path(".")
Root == << >>

\* PurePath.parent: the parent of Path(".") is Path(".") itself.
Parent(p) == IF p = Root THEN Root ELSE SubSeq(p, 1, Len(p) - 1)

\* PurePath.name: the last segment, "" for Path(".").
Name(p) == IF p = Root THEN "" ELSE p[Len(p)]

\* PurePath.joinpath(*parts): an empty part adds no segment.
RECURSIVE JoinPath(_, _)
JoinPath(base, parts) ==
    IF parts = << >> THEN base
    ELSE JoinPath(IF Head(parts) = "" THEN base ELSE Append(base, Head(parts)),
                  Tail(parts))

\* OUT_DIR = Path("Maps")
OUT_DIR == <<"Maps">>

(***************************************************************************)
(* Optional values: Python's None against a present value.                 *)
(***************************************************************************)
None == [some |-> FALSE, val |-> << >>]
Some(v) == [some |-> TRUE, val |-> v]

(***************************************************************************)
(* Tree entries of the listing (item dicts of the GitHub tree API).        *)
(***************************************************************************)
\* str.lower() on the file names of the model
Lower(n) == IF n = "MAP.PNG" THEN "map.png" ELSE n

\* str.endswith("map.png") on the (lower-cased) file names of the model
EndsWithMapPng(n) == n \in {"map.png", "minimap.png"}

\* lines 101-106: the entry is a blob whose path, lower-cased, ends with map.png
IsMapItem(item) == item.type = "blob" /\ EndsWithMapPng(Lower(item.name))

\* lines 100-110: map_items, the matching entries in listing order
RECURSIVE MapItems(_)
MapItems(tree) ==
    IF tree = << >> THEN << >>
    ELSE IF IsMapItem(Head(tree)) THEN <<Head(tree)>> \o MapItems(Tail(tree))
    ELSE MapItems(Tail(tree))

\* lines 109-111: map_dirs, the directories that directly contain a match
MapDirs(tree) == {tree[k].dir : k \in {j \in 1..Len(tree) : IsMapItem(tree[j])}}

(***************************************************************************)
(* Lines 115-129: the upward walk to the nearest ancestor in map_dirs.     *)
(***************************************************************************)
RECURSIVE Walk(_, _, _, _)
Walk(cur, parent, steps, map_dirs) ==
    IF parent = cur THEN [anc |-> None, distance |-> 0]
    ELSE IF parent \in map_dirs THEN [anc |-> Some(parent), distance |-> steps + 1]
    ELSE Walk(parent, Parent(parent), steps + 1, map_dirs)

NearestAncestor(map_dir, map_dirs) == Walk(map_dir, Parent(map_dir), 0, map_dirs)

\* lines 136-141: an ancestor was found; only distance 1 is a valid variant
\* (faulty variant: any ancestor distance is kept)
MutKeepAnyDistance(distance) == distance >= 1
IsVariantDistance(distance) == distance = 1

\* lines 133 and 138: map_name
\* (faulty variants: the directory's own name; the first segment of a base map)
MutMapNameOwn(map_dir, w) == Name(map_dir)
MutMapNameFirst(map_dir, w) ==
    IF ~w.anc.some THEN (IF map_dir = Root THEN "" ELSE map_dir[1]) ELSE Name(w.anc.val)
MapName(map_dir, w) == IF ~w.anc.some THEN Name(map_dir) ELSE Name(w.anc.val)

\* lines 134 and 139: variant
Variant(map_dir, w) == IF ~w.anc.some THEN None ELSE Some(Name(map_dir))

\* line 143: keep_parts = [map_name] + ([variant] if variant else [])
KeepParts(map_name, variant) ==
    <<map_name>> \o (IF variant.some /\ variant.val # "" THEN <<variant.val>> ELSE << >>)

\* lines 131-147: the classification of one matching entry
Classify(map_dir, map_dirs) ==
    LET w == NearestAncestor(map_dir, map_dirs)
        map_name == MapName(map_dir, w)
        variant == Variant(map_dir, w)
        dest_dir == JoinPath(OUT_DIR, KeepParts(map_name, variant))
    IN  [kept      |-> (~w.anc.some) \/ IsVariantDistance(w.distance),
         map_name  |-> map_name,
         variant   |-> variant,
         dest_dir  |-> dest_dir,
         dest_file |-> Append(dest_dir, "map.png"),
         sha_file  |-> Append(dest_dir, ".map_sha")]

(***************************************************************************)
(* Texts and the local files of a destination directory.                   *)
(***************************************************************************)
Whitespace == {" ", "\n"}

RECURSIVE LStrip(_)
LStrip(t) == IF t # << >> /\ Head(t) \in Whitespace THEN LStrip(Tail(t)) ELSE t

RECURSIVE RStrip(_)
RStrip(t) ==
    IF t # << >> /\ t[Len(t)] \in Whitespace THEN RStrip(SubSeq(t, 1, Len(t) - 1)) ELSE t

\* str.strip()
\* (faulty variant: the record is compared as read)
MutNoStrip(t) == t
Strip(t) == RStrip(LStrip(t))

\* line 150: local_sha, None when the record file does not exist
LocalSha(rec) == IF rec.some THEN Some(Strip(rec.val)) ELSE None

\* line 160: remote_sha or ""
ShaText(remote_sha) ==
    IF remote_sha.some /\ remote_sha.val # << >> THEN remote_sha.val ELSE << >>

\* line 152: local_sha == remote_sha and dest_file.exists()
UpToDate(local_sha, remote_sha, exists) == local_sha = remote_sha /\ exists

NoFile == [state |-> "absent", data |-> None]
PartialFile == [state |-> "partial", data |-> None]
WholeFile(data) == [state |-> "whole", data |-> data]

\* Path.exists() of the destination file
Exists(file) == file.state # "absent"

\* the destination directories the classifier can produce
DestDirs ==
    {JoinPath(OUT_DIR, <<a, b>>) : a \in Segments \cup {""}, b \in Segments \cup {""}}

(***************************************************************************)
(* HTTP: responses of requests.get and Response.raise_for_status().        *)
(***************************************************************************)
Statuses == {200, 404, 500}

\* requests.get raised a transport error (requests.ConnectionError): no response
NoResponse == [conn |-> TRUE, status |-> 0]
Response(s) == [conn |-> FALSE, status |-> s]
Responses == {NoResponse} \cup {Response(s) : s \in Statuses}

\* Response.raise_for_status(): HTTPError for 4xx and 5xx
RaisesForStatus(status) == status >= 400 /\ status < 600

\* what a request followed by raise_for_status() raises
Raised(r) ==
    IF r.conn THEN "ConnectionError"
    ELSE IF RaisesForStatus(r.status) THEN "HTTPError"
    ELSE "none"

\* line 71: r.status_code == 404 and HEADERS and sha
\* (faulty variant: the fallback does not ask for HEADERS)
MutFallbackNoToken(status, token, sha) == status = 404 /\ sha.some /\ sha.val # << >>
UseFallback(status, token, sha) ==
    status = 404 /\ token /\ sha.some /\ sha.val # << >>

\* lines 66-86: download_raw; r is the raw-content response, stream tells whether
\* iter_content delivers the whole body, b is the blob response
DownloadRaw(file, token, sha, r, stream, b) ==
    IF r.conn
    THEN [file |-> file, raised |-> "ConnectionError", blob |-> FALSE]
    ELSE IF UseFallback(r.status, token, sha)
    THEN IF Raised(b) # "none"
         THEN [file |-> file, raised |-> Raised(b), blob |-> TRUE]
         ELSE [file |-> WholeFile(sha), raised |-> "none", blob |-> TRUE]
    ELSE IF RaisesForStatus(r.status)
    THEN [file |-> file, raised |-> "HTTPError", blob |-> FALSE]
    ELSE IF stream = "broken"
    THEN [file |-> PartialFile, raised |-> "ConnectionError", blob |-> FALSE]
    ELSE [file |-> WholeFile(sha), raised |-> "none", blob |-> FALSE]

(***************************************************************************)
(* The remote listings and the configured sources.                         *)
(***************************************************************************)
Entry(type, dir, name, sha) == [type |-> type, dir |-> dir, name |-> name, sha |-> sha]

ShaA == Some(<<"a">>)
ShaB == Some(<<"b">>)

\* the directories of depth at most n
RECURSIVE PathsUpTo(_)
PathsUpTo(n) ==
    IF n = 0 THEN {Root}
    ELSE LET shorter == PathsUpTo(n - 1)
         IN  shorter \cup {Append(p, s) : p \in shorter, s \in Segments}

\* entries drawn for the classifier: a map.png blob in every directory, another
\* matching name, a directory entry named map.png and a file that does not match
ClassifierPool ==
    {Entry("blob", d, "map.png", ShaA) : d \in PathsUpTo(MaxDepth)}
        \cup {Entry("blob", <<"night">>, "MAP.PNG", ShaB),
              Entry("tree", <<"world">>, "map.png", ShaA),
              Entry("blob", <<"world">>, "map.png.bak", ShaA)}

\* the sets of at most n entries of pool
RECURSIVE SetsUpTo(_, _)
SetsUpTo(pool, n) ==
    IF n = 0 THEN {{}}
    ELSE LET smaller == SetsUpTo(pool, n - 1)
         IN  smaller \cup {S \cup {e} : S \in smaller, e \in pool}

\* a listing of the entries of S
RECURSIVE ListingOf(_)
ListingOf(S) ==
    IF S = {} THEN << >>
    ELSE LET e == CHOOSE x \in S : TRUE IN <<e>> \o ListingOf(S \ {e})

\* entries drawn for the sync: base maps, variants, a deep directory under a
\* root-level map.png, two directories named alike, an entry without "sha"
SyncPool ==
    {Entry("blob", Root, "map.png", ShaA),
     Entry("blob", <<"world">>, "map.png", ShaA),
     Entry("blob", <<"world", "night">>, "map.png", ShaB),
     Entry("blob", <<"night", "world">>, "MAP.PNG", ShaB),
     Entry("blob", <<"world">>, "minimap.png", None)}

\* the listings of the first repository: one or two entries of the pool
FirstListings == {<<e>> : e \in SyncPool} \cup {<<e, f>> : e \in SyncPool, f \in SyncPool}

\* the listings of the second repository: empty, or a map named like one of
\* the first repository among entries that are no map.png blobs
SecondListings ==
    {<< >>,
     <<Entry("tree", <<"night">>, "map.png", ShaA),
       Entry("blob", <<"night">>, "map.png.bak", ShaA),
       Entry("blob", <<"world">>, "map.png", ShaB)>>}

\* sources.json: two repositories and an entry without "repository"
Sources == <<"octo/maps", "", "octo/more">>

VARIABLES
    trees,       \* the tree listing the remote serves, per source
    token,       \* GITHUB_TOKEN is set (HEADERS is not empty)
    fs,          \* per destination directory: map.png and the .map_sha record
    pc,          \* "idle", "source", "items", "finished", "aborted", "classify"
    src,         \* index of the source main() is at
    map_items,   \* matching entries of the repository being handled
    map_dirs,    \* directories that directly contain a match
    k,           \* index in map_items of the next entry of the loop of line 114
    clean,       \* no request failed in the current run, no local edit after it
    prevClean,   \* the previous run finished clean and nothing was edited since
    runs,        \* runs started
    edits,       \* edits of Maps/ made by the user
    lastOk,      \* per destination: fingerprint of the last download that completed
    last         \* what the last step did

vars == <<trees, token, fs, pc, src, map_items, map_dirs, k, clean,
          prevClean, runs, edits, lastOk, last>>

NoEntry == Entry("none", Root, "", None)
NoRecord == [file |-> NoFile, sha |-> None]

Step(op, item, target, before, r, stream, b, raised, blob) ==
    [op |-> op, item |-> item, dirs |-> map_dirs, target |-> target,
     before |-> before, r |-> r, stream |-> stream, b |-> b, raised |-> raised,
     blob |-> blob]

Plain(op, raised) ==
    Step(op, NoEntry, Classify(Root, {}), NoRecord, NoResponse, "ok", NoResponse,
         raised, FALSE)

InitLocal ==
    /\ fs = [d \in DestDirs |-> NoRecord]
    /\ src = 0
    /\ map_items = << >>
    /\ map_dirs = {}
    /\ k = 0
    /\ clean = FALSE
    /\ prevClean = FALSE
    /\ runs = 0
    /\ edits = 0
    /\ lastOk = [d \in DestDirs |-> None]
    /\ last = [Plain("init", "none") EXCEPT !.dirs = {}]

Init ==
    /\ trees \in {<<t1, << >>, t2>> : t1 \in FirstListings, t2 \in SecondListings}
    /\ token = FALSE
    /\ pc = "idle"
    /\ InitLocal

Ended == pc \in {"idle", "finished", "aborted"}

\* __main__: a new process runs main(); TOKEN is read from the environment
StartRun ==
    /\ Ended
    /\ runs < MaxRuns
    /\ runs' = runs + 1
    /\ \E t \in BOOLEAN : token' = t
    /\ pc' = "source"
    /\ src' = 1
    /\ prevClean' = (pc = "finished" /\ clean)
    /\ clean' = TRUE
    /\ last' = Plain("start", "none")
    /\ UNCHANGED <<trees, fs, map_items, map_dirs, k, edits, lastOk>>

\* lines 175-177: the loop of main() moves to the next source
NextSource ==
    /\ src' = src + 1
    /\ pc' = "source"
    /\ map_items' = << >>
    /\ map_dirs' = {}
    /\ k' = 0

\* an exception no handler catches ends the process
Abort ==
    /\ pc' = "aborted"
    /\ map_items' = << >>
    /\ map_dirs' = {}
    /\ k' = 0
    /\ UNCHANGED src

\* lines 164-171: handle_source for a source without "repository"
HandleSourceUnsupported ==
    /\ pc = "source"
    /\ src <= Len(Sources)
    /\ Sources[src] = ""
    /\ NextSource
    /\ last' = Plain("unsupported", "none")
    /\ UNCHANGED <<trees, token, fs, clean, prevClean, runs, edits, lastOk>>

\* a request that is not sent has no response to draw
Sent(sent, r) == sent \/ r = NoResponse

\* what lines 90-91 raise: the default-branch lookup (skipped with a branch
\* override), the branch resolution, the tree listing
LookupRaised(branch_override, r1, r2, r3) ==
    IF ~branch_override /\ Raised(r1) # "none" THEN Raised(r1)
    ELSE IF Raised(r2) # "none" THEN Raised(r2)
    ELSE Raised(r3)

\* lines 88-111: handle_github_repo up to the collection of map_items and map_dirs
HandleRepo ==
    /\ pc = "source"
    /\ src <= Len(Sources)
    /\ Sources[src] # ""
    /\ \E branch_override \in BOOLEAN, r1 \in Responses, r2 \in Responses, r3 \in Responses :
         LET raised == LookupRaised(branch_override, r1, r2, r3) IN
         /\ Sent(~branch_override, r1)
         /\ Sent(branch_override \/ Raised(r1) = "none", r2)
         /\ Sent((branch_override \/ Raised(r1) = "none") /\ Raised(r2) = "none", r3)
         /\ last' = Plain("repo", raised)
         /\ IF raised = "HTTPError"
            THEN NextSource /\ clean' = FALSE
            ELSE IF raised = "ConnectionError"
            THEN Abort /\ clean' = FALSE
            ELSE /\ pc' = "items"
                 /\ map_items' = MapItems(trees[src])
                 /\ map_dirs' = MapDirs(trees[src])
                 /\ k' = 1
                 /\ UNCHANGED <<src, clean>>
    /\ UNCHANGED <<trees, token, fs, prevClean, runs, edits, lastOk>>

\* the entry the loop of line 114 is at, and its classification
CurItem == map_items[k]
CurTarget == Classify(CurItem.dir, map_dirs)
AtItem == pc = "items" /\ k <= Len(map_items)

\* lines 114-141: the entry is too deep under its nearest map directory
DiscardItem ==
    /\ AtItem
    /\ ~CurTarget.kept
    /\ k' = k + 1
    /\ last' = Step("discard", CurItem, CurTarget, NoRecord, NoResponse, "ok",
                    NoResponse, "none", FALSE)
    /\ UNCHANGED <<trees, token, fs, pc, src, map_items, map_dirs, clean,
                   prevClean, runs, edits, lastOk>>

\* lines 114-154: the destination is up to date
SkipItem ==
    /\ AtItem
    /\ CurTarget.kept
    /\ LET d == CurTarget.dest_dir IN
       /\ UpToDate(LocalSha(fs[d].sha), CurItem.sha, Exists(fs[d].file))
       /\ last' = Step("skip", CurItem, CurTarget, fs[d], NoResponse, "ok",
                       NoResponse, "none", FALSE)
    /\ k' = k + 1
    /\ UNCHANGED <<trees, token, fs, pc, src, map_items, map_dirs, clean,
                   prevClean, runs, edits, lastOk>>

\* lines 114-162: the destination is downloaded
DownloadItem ==
    /\ AtItem
    /\ CurTarget.kept
    /\ LET d == CurTarget.dest_dir
           remote_sha == CurItem.sha
       IN
       /\ ~UpToDate(LocalSha(fs[d].sha), remote_sha, Exists(fs[d].file))
       /\ \E r \in Responses, stream \in {"ok", "broken"}, b \in Responses :
            LET res == DownloadRaw(fs[d].file, token, remote_sha, r, stream, b) IN
            /\ Sent(res.blob, b)
            /\ (r.conn \/ r.status # 200) => stream = "ok"
            /\ last' = Step("download", CurItem, CurTarget, fs[d], r, stream, b,
                            res.raised, res.blob)
            /\ IF res.raised = "none"
               THEN /\ fs' = [fs EXCEPT ![d] = [file |-> res.file,
                                                 sha |-> Some(ShaText(remote_sha))]]
                    /\ lastOk' = [lastOk EXCEPT ![d] = Some(ShaText(remote_sha))]
                    /\ k' = k + 1
                    /\ UNCHANGED <<pc, src, map_items, map_dirs, clean>>
               ELSE /\ fs' = [fs EXCEPT ![d].file = res.file]
                    /\ clean' = FALSE
                    /\ UNCHANGED lastOk
                    /\ IF res.raised = "HTTPError"
                       THEN k' = k + 1 /\ UNCHANGED <<pc, src, map_items, map_dirs>>
                       ELSE Abort
    /\ UNCHANGED <<trees, token, prevClean, runs, edits>>

\* line 114: the loop is over, handle_github_repo returns
EndRepo ==
    /\ pc = "items"
    /\ k > Len(map_items)
    /\ NextSource
    /\ last' = Plain("endrepo", "none")
    /\ UNCHANGED <<trees, token, fs, clean, prevClean, runs, edits, lastOk>>

\* line 178: "Finished processing map images."
Finish ==
    /\ pc = "source"
    /\ src > Len(Sources)
    /\ pc' = "finished"
    /\ last' = Plain("finish", "none")
    /\ UNCHANGED <<trees, token, fs, src, map_items, map_dirs, k, clean,
                   prevClean, runs, edits, lastOk>>

(***************************************************************************)
(* Between two runs the user may edit Maps/.                               *)
(***************************************************************************)
LocalEdit(d, entry) ==
    /\ Ended
    /\ edits < MaxEdits
    /\ edits' = edits + 1
    /\ fs' = [fs EXCEPT ![d] = entry]
    /\ clean' = FALSE
    /\ last' = Plain("edit", "none")
    /\ UNCHANGED <<trees, token, pc, src, map_items, map_dirs, k,
                   prevClean, runs, lastOk>>

DeleteRecord ==
    \E d \in DestDirs : fs[d].sha.some /\ LocalEdit(d, [fs[d] EXCEPT !.sha = None])

DeleteFile ==
    \E d \in DestDirs : Exists(fs[d].file) /\ LocalEdit(d, [fs[d] EXCEPT !.file = NoFile])

\* an editor saves the record with a trailing newline
AppendNewline ==
    \E d \in DestDirs :
        /\ fs[d].sha.some
        /\ fs[d].sha.val # << >>
        /\ fs[d].sha.val[Len(fs[d].sha.val)] # "\n"
        /\ LocalEdit(d, [fs[d] EXCEPT !.sha = Some(Append(fs[d].sha.val, "\n"))])

Next ==
    \/ StartRun
    \/ HandleSourceUnsupported
    \/ HandleRepo
    \/ DiscardItem
    \/ SkipItem
    \/ DownloadItem
    \/ EndRepo
    \/ Finish
    \/ DeleteRecord
    \/ DeleteFile
    \/ AppendNewline

Spec == Init /\ [][Next]_vars

(***************************************************************************)
(* The classifier alone, over every small listing: lines 96-147.           *)
(***************************************************************************)
InitClassify ==
    /\ trees \in {<<ListingOf(S)>> : S \in SetsUpTo(ClassifierPool, MaxItems)}
    /\ token = FALSE
    /\ pc = "scan"
    /\ InitLocal

\* lines 96-111: collect map_items and map_dirs
Scan ==
    /\ pc = "scan"
    /\ pc' = "resolve"
    /\ map_items' = MapItems(trees[1])
    /\ map_dirs' = MapDirs(trees[1])
    /\ k' = 1
    /\ last' = Plain("scan", "none")
    /\ UNCHANGED <<trees, token, fs, src, clean, prevClean, runs, edits,
                   lastOk>>

\* lines 114-147: resolve map_name, variant and the destination of one entry
ResolveItem ==
    /\ pc = "resolve"
    /\ k <= Len(map_items)
    /\ k' = k + 1
    /\ last' = Step("classify", CurItem, CurTarget, NoRecord, NoResponse, "ok",
                    NoResponse, "none", FALSE)
    /\ UNCHANGED <<trees, token, fs, pc, src, map_items, map_dirs, clean,
                   prevClean, runs, edits, lastOk>>

NextClassify == Scan \/ ResolveItem

SpecClassify == InitClassify /\ [][NextClassify]_vars

(***************************************************************************)
(* Vocabulary of the properties, stated on paths and texts directly.       *)
(***************************************************************************)
ItemOps == {"classify", "discard", "skip", "download"}

LastSegment(p) == IF Len(p) = 0 THEN "" ELSE p[Len(p)]

\* the proper ancestors of directory d, the root included
ProperAncestors(d) == {SubSeq(d, 1, i) : i \in 0..(Len(d) - 1)}

\* levels between d and its nearest ancestor in D; 0 when it has none
NearestDistance(d, D) ==
    LET A == ProperAncestors(d) \cap D
    IN  IF A = {} THEN 0
        ELSE Len(d) - (CHOOSE n \in {Len(a) : a \in A} : \A a \in A : Len(a) <= n)

\* parts joined under the output root; an empty part names no directory
UnderOutput(parts) == <<"Maps">> \o SelectSeq(parts, LAMBDA x : x # "")

\* text t without its leading and trailing whitespace
TrimOf(t) ==
    LET I == {i \in 1..Len(t) : t[i] \notin {" ", "\n"}}
    IN  IF I = {} THEN << >>
        ELSE SubSeq(t, CHOOSE i \in I : \A j \in I : i <= j,
                       CHOOSE i \in I : \A j \in I : j <= i)

\* the persisted fingerprint, trimmed, is the remote fingerprint
RecordMatches(rec, sha) == rec.some /\ sha.some /\ TrimOf(rec.val) = sha.val

Success(r) == ~r.conn /\ r.status >= 200 /\ r.status <= 299

(***************************************************************************)
(* Properties.                                                             *)
(***************************************************************************)

\* every entry of every listing carries a fingerprint
AllFingerprinted ==
    \A i \in 1..Len(trees) : \A j \in 1..Len(trees[i]) : trees[i][j].sha.some

\* C1: idempotence of sync. When the previous run finished with every request
\* answered successfully and Maps/ was not edited since, the current run over
\* the same listings calls download_raw for no target (stated here for the
\* listings whose entries all carry a fingerprint).
C1_Idempotence == (prevClean /\ AllFingerprinted) => last.op # "download"

\* C2: fingerprint-record invariant. A record in a destination directory is
\* the fingerprint of the last download into it that completed, and it never
\* sits beside a map.png left by a write that failed partway.
C2_RecordInvariant ==
    \A d \in DestDirs :
        fs[d].sha.some =>
            /\ lastOk[d].some
            /\ TrimOf(fs[d].sha.val) = lastOk[d].val
            /\ fs[d].file.state # "partial"

\* C3: skip rule. When the record of a classified target, trimmed, equals its
\* remote fingerprint and map.png exists, the sync of that target calls no
\* fetch and changes neither map.png nor the record.
C3_SkipRule ==
    [][(/\ AtItem
        /\ CurTarget.kept
        /\ RecordMatches(fs[CurTarget.dest_dir].sha, CurItem.sha)
        /\ fs[CurTarget.dest_dir].file.state # "absent")
       => (last'.op = "skip" /\ fs' = fs)]_vars

\* C3 witness: a target was skipped whose record carries a trailing newline.
C3_Witness ==
    /\ last.op = "skip"
    /\ last.before.sha.some
    /\ last.item.sha.some
    /\ last.before.sha.val # last.item.sha.val
    /\ fs[last.target.dest_dir] = last.before

C5_VariantClassification ==
    (last.op \in ItemOps /\ NearestDistance(last.item.dir, last.dirs) = 1) =>
        LET d == last.item.dir
            par == SubSeq(d, 1, Len(d) - 1)
        IN  /\ last.target.kept
            /\ last.target.map_name = LastSegment(par)
            /\ last.target.variant = Some(LastSegment(d))
            /\ last.target.dest_file =
                   UnderOutput(<<LastSegment(par), LastSegment(d), "map.png">>)
            /\ last.target.sha_file =
                   UnderOutput(<<LastSegment(par), LastSegment(d), ".map_sha">>)

\* C5 witness: a variant whose parent is itself a variant of its own parent.
C5_Witness ==
    /\ last.op = "classify"
    /\ Len(last.item.dir) = 3
    /\ NearestDistance(last.item.dir, last.dirs) = 1
    /\ NearestDistance(SubSeq(last.item.dir, 1, 2), last.dirs) = 1
    /\ last.target.kept
    /\ last.target.map_name = last.item.dir[2]
    /\ last.target.variant = Some(last.item.dir[3])

\* C6: deep nesting is discarded. An entry whose nearest ancestor map directory
\* is two or more levels up yields no target: no fetch is made and no map.png
\* or record is created or changed by its iteration.
C6_DeepNestingDiscarded ==
    [][(AtItem /\ NearestDistance(CurItem.dir, map_dirs) >= 2)
       => (/\ last'.op = "discard"
           /\ ~last'.target.kept
           /\ fs' = fs)]_vars

\* C6 witness: an entry two levels under its nearest map directory was dropped.
C6_Witness ==
    /\ last.op = "discard"
    /\ NearestDistance(last.item.dir, last.dirs) >= 2

\* C7: base-map classification. A map directory none of whose ancestors is a
\* map directory is classified without variant, named by its own last segment
\* whatever lies above it, with destination {mapName}/map.png and record
\* {mapName}/.map_sha under the output root.
C7_BaseMapClassification ==
    (last.op \in ItemOps /\ ProperAncestors(last.item.dir) \cap last.dirs = {}) =>
        LET d == last.item.dir
        IN  /\ last.target.kept
            /\ ~last.target.variant.some
            /\ last.target.map_name = LastSegment(d)
            /\ last.target.dest_file = UnderOutput(<<LastSegment(d), "map.png">>)
            /\ last.target.sha_file = UnderOutput(<<LastSegment(d), ".map_sha">>)

\* C7 witness: a base map three segments deep, named by its last segment only.
C7_Witness ==
    /\ last.op = "classify"
    /\ Len(last.item.dir) = 3
    /\ last.item.dir[3] # last.item.dir[1]
    /\ ProperAncestors(last.item.dir) \cap last.dirs = {}
    /\ last.target.dest_file = <<"Maps", last.item.dir[3], "map.png">>

\* C8: a failure of one target's fetch is not fatal. Whatever download_raw
\* raises for a target, the run goes on to the next target.
C8_TargetFailureNonFatal ==
    (last.op = "download" /\ last.raised # "none") => pc = "items"

\* C9: a failure of one repository's lookup is not fatal. Whatever the default
\* branch lookup, the branch resolution or the tree listing raises, the
\* repository is skipped and the run goes on to the next source.
C9_RepositoryFailureNonFatal ==
    (last.op = "repo" /\ last.raised # "none") => (pc = "source" /\ map_items = << >>)

\* C10: fallback guard of download_raw. The blob is requested only when the
\* raw request answered 404, a token is configured and the target carries a
\* fingerprint; any other unsuccessful raw response fails the fetch with no
\* blob request and Maps/ untouched; an unsuccessful blob response fails the
\* fetch and leaves map.png as it was.
C10_FallbackGuard ==
    [][(AtItem /\ last'.op = "download")
       => LET r == last'.r
              b == last'.b
              d == CurTarget.dest_dir
              guard == ~r.conn /\ r.status = 404 /\ token /\ CurItem.sha.some
          IN  /\ last'.blob => guard
              /\ (~Success(r) /\ ~guard)
                     => (~last'.blob /\ last'.raised # "none" /\ fs' = fs)
              /\ (last'.blob /\ ~Success(b))
                     => (last'.raised # "none" /\ fs'[d].file = fs[d].file)]_vars

\* C10 witness: a 404 without a token fails the fetch with no blob request.
C10_Witness ==
    /\ last.op = "download"
    /\ ~last.r.conn
    /\ last.r.status = 404
    /\ ~token
    /\ last.item.sha.some
    /\ ~last.blob
    /\ last.raised = "HTTPError"
    /\ fs[last.target.dest_dir] = last.before

====
